---------------------------- MODULE Spec2Model ----------------------------
(***************************************************************************)
(* Model of the SCC logging front end, incl/scc/report.h:                  *)
(*   - the log level enumeration and its stream operators,                 *)
(*   - the verbosity look-up the logging macros gate on,                   *)
(*   - ScLogger, the scoped log statement builder, and the SCC* macros,    *)
(*   - stream_redirection, the stream capturing adapter.                   *)
(* report.h only declares the category look-up get_log_verbosity(t),       *)
(* init_logging, set_logging_level, get_logging_level and the members of   *)
(* stream_redirection; their bodies are modelled from the design document  *)
(* and marked so in the map.                                               *)
(***************************************************************************)
EXTENDS Integers, Sequences, FiniteSets, TLC

(***************************************************************************)
(* Bounds of the model.                                                    *)
(***************************************************************************)
\* number of stream writes into one ScLogger
MaxWrites == 2
\* number of write and flush calls on the target stream of a redirection
MaxStreamOps == 3
\* number of reset() calls on one redirection
MaxResets == 2
\* number of operator>> calls on one stream
MaxParses == 2
\* number of type calls made on one ScLogger after its construction
MaxTypeCalls == 2

(***************************************************************************)
(* Characters and C strings.  Text is a sequence of characters; NUL is the *)
(* character '\0', which ends a C string.                                  *)
(***************************************************************************)
NUL == "\\0"
NL == "\\n"
SP == " "

RECURSIVE CStr(_)
\* what a reader of a char const* sees of the characters s: those before
\* the first NUL
CStr(s) ==
    IF s = <<>> \/ Head(s) = NUL THEN <<>> ELSE <<Head(s)>> \o CStr(Tail(s))

\* strcmp(a.c_str(), b) == 0 for a std::string a and a literal b
StrcmpEq(a, b) == CStr(a) = CStr(b)

(***************************************************************************)
(* The host's verbosity values (sc_core::sc_verbosity) the macros use.     *)
(***************************************************************************)
SC_MEDIUM == 200
SC_HIGH == 300
SC_FULL == 400
SC_DEBUG == 500

(***************************************************************************)
(* enum class log and its string table.                                    *)
(***************************************************************************)
NONE == 0
FATAL == 1
ERROR == 2
WARNING == 3
INFO == 4
DEBUG == 5
TRACE == 6
TRACEALL == 7
\* DBGTRACE = TRACEALL
DBGTRACE == TRACEALL

Levels == NONE .. TRACEALL

\* static std::array<const char* const, 8> buffer
buffer ==
    << <<"N","O","N","E">>,
       <<"F","A","T","A","L">>,
       <<"E","R","R","O","R">>,
       <<"W","A","R","N","I","N","G">>,
       <<"I","N","F","O">>,
       <<"D","E","B","U","G">>,
       <<"T","R","A","C","E">>,
       <<"T","R","A","C","E","A","L","L">> >>

\* as_log(int): the identity on 0..7 (asserted)
as_log(i) == i


(***************************************************************************)
(* State.                                                                  *)
(***************************************************************************)
VARIABLES
    \* Verbosity registry
    verbosity_level,  \* the host's global verbosity, sc_report_handler
    lut,              \* category -> override verbosity, or NoOverride
    log_cfg_level,    \* the level the registry was last configured with
    inited,           \* init_logging has been called
    \* Log statements, one slot per caller thread
    live,             \* the threads that log in this run
    stmt,             \* thread -> its current or last log statement
    delivered,        \* thread -> records its current or last statement
                      \*           handed to sc_report_handler::report
    \* stream_redirection
    rstage,    \* "none", "active", "reset" or "destroyed"
    rdbuf,     \* the buffer installed in the target stream os
    old_buf,   \* the captured buffer, nullptr when none is held
    rlevel,    \* the level of the session
    pending,   \* the characters buffered in the stringbuf
    rsink,     \* the records the session handed to the report handler
    nops,      \* write and flush calls made on the stream
    nreset,    \* calls of reset()
    \* history, for the properties
    wlog,      \* what was written to the stream while it was captured,
               \* a flush request being the mark FLUSH
    orig,      \* the buffer installed in the stream when the session began
    foreign,   \* someone else set the stream's buffer since the session
               \* last installed one
    nrestore,  \* restorations of the stream's buffer by the session
    rpath,     \* the path on which the session's scope was left
    \* the stream a log value is written to and read from
    ss,       \* the unread characters of the stream
    eofbit,
    failbit,
    val,      \* the log value read into
    pstage,   \* "start", "formatted" or "parsed"
    nparse,   \* calls of operator>>
    \* history, for the properties
    fmt,      \* the value operator<< wrote, -1 if none
    fresh,    \* operator<< wrote to an empty stream
    tok,      \* the token the last operator>> extracted
    val0      \* val before the last operator>>

regVars == <<verbosity_level, lut, log_cfg_level, inited>>
bldVars == <<live, stmt, delivered>>
redVars == <<rstage, rdbuf, old_buf, rlevel, pending, rsink, nops, nreset,
             wlog, orig, foreign, nrestore, rpath>>
parVars == <<ss, eofbit, failbit, val, pstage, nparse, fmt, fresh, tok, val0>>
vars == <<regVars, bldVars, redVars, parVars>>
\* what the registry and the log statements leave alone
nonLog == <<redVars, parVars>>
\* what a redirection leaves alone
nonRed == <<regVars, bldVars, parVars>>
\* what the stream operators leave alone
nonPar == <<regVars, bldVars, redVars>>

Threads == {"t1", "t2"}
Categories == {"BUS", "CPU"}
\* a macro called without arguments
NoArg == "<noarg>"
Args == Categories \cup {NoArg}
nullptr == "nullptr"
NoOverride == -1

\* a verbosity set on the host directly that is the verbosity of no level
HostValues == {250}
\* the levels given to category overrides
OverrideLevels == {WARNING, DEBUG, TRACE}

\* report.cpp's table from a log level to the host's verbosity
verbosity == <<0, 100, 100, 100, SC_MEDIUM, SC_HIGH, SC_FULL, SC_DEBUG>>

(***************************************************************************)
(* Verbosity registry.                                                     *)
(***************************************************************************)
\* get_log_verbosity(): the host's global verbosity
get_log_verbosity == verbosity_level

\* get_log_verbosity(char const* t): the override of t if there is one,
\* else the global verbosity
get_log_verbosity_t(t) ==
    IF lut[t] # NoOverride THEN lut[t] ELSE get_log_verbosity

\* the macros' look-up made without the macro's arguments
get_log_verbosity_va_noArgs(arg) == get_log_verbosity

\* get_log_verbosity(__VA_ARGS__) as the macros call it
get_log_verbosity_va(arg) ==
    IF arg = NoArg THEN get_log_verbosity ELSE get_log_verbosity_t(arg)

\* set_logging_level(level)
set_logging_level(level) ==
    /\ log_cfg_level' = level
    /\ verbosity_level' = verbosity[level + 1]
    /\ UNCHANGED <<lut, inited, bldVars, nonLog>>

\* get_logging_level(): the level the registry holds
get_logging_level == log_cfg_level

\* init_logging(level, ...): the first configuration of the registry
init_logging(level) ==
    /\ inited' = TRUE
    /\ log_cfg_level' = level
    /\ verbosity_level' = verbosity[level + 1]
    /\ UNCHANGED <<lut, bldVars, nonLog>>

\* sc_report_handler::set_verbosity_level(v), called on the host directly
set_verbosity_level(v) ==
    /\ verbosity_level' = v
    /\ UNCHANGED <<lut, log_cfg_level, inited, bldVars, nonLog>>

\* registers the override of category c
set_category_override(c, level) ==
    /\ lut' = [lut EXCEPT ![c] = verbosity[level + 1]]
    /\ UNCHANGED <<verbosity_level, log_cfg_level, inited, bldVars, nonLog>>

\* removes the override of category c
clear_category_override(c) ==
    /\ lut[c] # NoOverride
    /\ lut' = [lut EXCEPT ![c] = NoOverride]
    /\ UNCHANGED <<verbosity_level, log_cfg_level, inited, bldVars, nonLog>>

(***************************************************************************)
(* The logging macros.                                                     *)
(***************************************************************************)
Tiered == {"SCCTRACEALL", "SCCTRACE", "SCCDEBUG", "SCCINFO"}
Untiered == {"SCCWARN", "SCCERR", "SCCFATAL"}
Macros == Tiered \cup Untiered

\* MacroGate with the thresholds of SCCTRACEALL and SCCTRACE exchanged
MacroGate_tracesExchanged(m) ==
    CASE m = "SCCTRACEALL" -> SC_FULL
      [] m = "SCCTRACE"    -> SC_DEBUG
      [] m = "SCCDEBUG"    -> SC_HIGH
      [] m = "SCCINFO"     -> SC_MEDIUM

\* MacroGate with SCCDEBUG comparing against the threshold of SCCINFO
MacroGate_debugAsInfo(m) ==
    CASE m = "SCCTRACEALL" -> SC_DEBUG
      [] m = "SCCTRACE"    -> SC_FULL
      [] m = "SCCDEBUG"    -> SC_MEDIUM
      [] m = "SCCINFO"     -> SC_MEDIUM

\* the verbosity a tiered macro compares get_log_verbosity against
MacroGate(m) ==
    CASE m = "SCCTRACEALL" -> SC_DEBUG
      [] m = "SCCTRACE"    -> SC_FULL
      [] m = "SCCDEBUG"    -> SC_HIGH
      [] m = "SCCINFO"     -> SC_MEDIUM

\* MacroSeverity with SCCFATAL instantiating ScLogger<SC_ERROR>
MacroSeverity_fatalAsError(m) ==
    CASE m \in Tiered   -> "SC_INFO"
      [] m = "SCCWARN"  -> "SC_WARNING"
      [] m = "SCCERR"   -> "SC_ERROR"
      [] m = "SCCFATAL" -> "SC_ERROR"

\* the SEVERITY the macro instantiates ScLogger with
MacroSeverity(m) ==
    CASE m \in Tiered   -> "SC_INFO"
      [] m = "SCCWARN"  -> "SC_WARNING"
      [] m = "SCCERR"   -> "SC_ERROR"
      [] m = "SCCFATAL" -> "SC_FATAL"

\* macros giving the constructor the threshold they gate on
MacroVerbosity_gateItself(m) ==
    IF m \in Tiered THEN MacroGate(m) ELSE SC_MEDIUM

\* the verbosity argument the macro gives the constructor
MacroVerbosity(m) ==
    IF m \in Tiered THEN MacroGate(m) \div 10 ELSE SC_MEDIUM

\* macros without the if(...) in front
MacroPasses_noGate(m, arg) == TRUE

\* the if(...) in front of the tiered macros; the others have none
MacroPasses(m, arg) ==
    m \in Tiered => get_log_verbosity_va(arg) >= MacroGate(m)

(***************************************************************************)
(* ScLogger.                                                               *)
(***************************************************************************)
\* text pieces a call site streams into a logger
Chunks == {<<"a">>, <<"b", NUL>>}

ExitPaths == {"scope_end", "return", "unwind"}

\* no type call was made
NoType == "<none>"
\* what a pointer into storage that was released or rewritten may read
\* other than a category name
Garbage == "<garbage>"

\* a thread that has not logged yet.  The field t is what the pointer t
\* reads; tkind tells what it points into: "cstr", characters that stay as
\* they are, "string", the buffer of a caller's std::string, or "stale",
\* such a buffer after the string was changed or destroyed.  The fields
\* tlast and ntype are history: the argument of the last type call and the
\* number of type calls made after the macro's
Idle ==
    [stage |-> "idle", macro |-> "", arg |-> NoArg, severity |-> "",
     os |-> <<>>, t |-> nullptr, file |-> "", line |-> 0, level |-> 0,
     written |-> <<>>, nw |-> 0, path |-> "",
     tkind |-> "", tlast |-> NoType, ntype |-> 0]

\* __FILE__ and __LINE__ of the call site thread th executes
CallFile(th) == IF th = "t1" THEN "file.cpp" ELSE "other.cpp"
CallLine(th) == IF th = "t1" THEN 1 ELSE 2

\* a constructor that does not keep the line it is given
ScLogger_ctor_noLine(sev, file, line, v) ==
    [Idle EXCEPT !.stage = "accumulating", !.severity = sev, !.file = file,
                 !.level = v]

\* ScLogger(file, line, verbosity): t(nullptr), an empty stream
ScLogger_ctor(sev, file, line, v) ==
    [Idle EXCEPT !.stage = "accumulating", !.severity = sev, !.file = file,
                 !.line = line, !.level = v]

\* type() and type(char const* t)
ScLogger_type(b, arg) ==
    [b EXCEPT !.t = IF arg = NoArg THEN nullptr ELSE arg,
              !.tkind = IF arg = NoArg THEN "" ELSE "cstr"]

\* type(std::string const& t): keeps t.c_str(), a pointer into the
\* caller's string
ScLogger_type_string(b, s) ==
    [b EXCEPT !.t = s, !.tkind = "string"]

\* the record ~ScLogger gives sc_report_handler::report
ReportRecord(b) ==
    [severity |-> b.severity,
     msg_type |-> IF b.t # nullptr THEN b.t ELSE "SystemC",
     msg |-> CStr(b.os),
     verbosity |-> b.level,
     file |-> b.file,
     line |-> b.line]

\* a destructor that reports only when no exception is in flight
DtorDelivers_notWhenUnwinding(path) == path # "unwind"

\* whether ~ScLogger calls report when the scope is left on this path
DtorDelivers(path) == TRUE

\* an insertion in front of what the stream holds
StreamInsert_prepend(os, chunk) == chunk \o os

\* what get() << chunk makes of the stream
StreamInsert(os, chunk) == os \o chunk

\* one macro call site: the gate, the constructor and type(__VA_ARGS__)
Begin(th, m, arg) ==
    /\ th \in live
    /\ stmt[th].stage # "accumulating"
    /\ stmt' = [stmt EXCEPT ![th] =
          IF MacroPasses(m, arg)
          THEN [ScLogger_type(ScLogger_ctor(MacroSeverity(m), CallFile(th),
                                            CallLine(th),
                                            MacroVerbosity(m)), arg)
                  EXCEPT !.macro = m, !.arg = arg, !.tlast = arg]
          ELSE [Idle EXCEPT !.stage = "suppressed", !.macro = m,
                            !.arg = arg]]
    /\ delivered' = [delivered EXCEPT ![th] = <<>>]
    /\ UNCHANGED <<regVars, live, nonLog>>

\* a later call of type() or type(char const*) on the logger
Type(th, arg) ==
    /\ th \in live
    /\ stmt[th].stage = "accumulating"
    /\ stmt[th].ntype < MaxTypeCalls
    /\ stmt' = [stmt EXCEPT ![th] =
          [ScLogger_type(@, arg) EXCEPT !.tlast = arg, !.ntype = @ + 1]]
    /\ UNCHANGED <<regVars, live, delivered, nonLog>>

\* a later call of type(std::string const&) on the logger
TypeString(th, s) ==
    /\ th \in live
    /\ stmt[th].stage = "accumulating"
    /\ stmt[th].ntype < MaxTypeCalls
    /\ stmt' = [stmt EXCEPT ![th] =
          [ScLogger_type_string(@, s) EXCEPT !.tlast = s, !.ntype = @ + 1]]
    /\ UNCHANGED <<regVars, live, delivered, nonLog>>

\* the caller assigns to or destroys the std::string it gave type(): the
\* pointer the logger kept is invalid, and reads now whatever is there
CallerStringEnds(th, now) ==
    /\ th \in live
    /\ stmt[th].stage = "accumulating"
    /\ stmt[th].tkind = "string"
    /\ stmt' = [stmt EXCEPT ![th].t = now, ![th].tkind = "stale"]
    /\ UNCHANGED <<regVars, live, delivered, nonLog>>

\* get() << chunk
Write(th, chunk) ==
    /\ th \in live
    /\ stmt[th].stage = "accumulating"
    /\ stmt[th].nw < MaxWrites
    /\ stmt' = [stmt EXCEPT ![th].os = StreamInsert(@, chunk),
                            ![th].written = @ \o chunk,
                            ![th].nw = @ + 1]
    /\ UNCHANGED <<regVars, live, delivered, nonLog>>

\* a destructor that sets the host's verbosity back to SC_MEDIUM
Destroy_settingVerbosity(th, path) ==
    /\ th \in live
    /\ stmt[th].stage = "accumulating"
    /\ delivered' = [delivered EXCEPT ![th] = Append(@, ReportRecord(stmt[th]))]
    /\ stmt' = [stmt EXCEPT ![th].stage = "destroyed", ![th].path = path]
    /\ verbosity_level' = SC_MEDIUM
    /\ UNCHANGED <<lut, log_cfg_level, inited, live, nonLog>>

\* ~ScLogger, the scope being left on the given path
Destroy(th, path) ==
    /\ th \in live
    /\ stmt[th].stage = "accumulating"
    /\ delivered' = [delivered EXCEPT ![th] =
          IF DtorDelivers(path) THEN Append(@, ReportRecord(stmt[th]))
          ELSE @]
    /\ stmt' = [stmt EXCEPT ![th].stage = "destroyed", ![th].path = path]
    /\ UNCHANGED <<regVars, live, nonLog>>

\* the host's filter in sc_report_handler::report: a record of severity
\* SC_INFO is dropped when its verbosity exceeds the host's verbosity
SinkAdmits(rec) ==
    rec.severity = "SC_INFO" => rec.verbosity <= verbosity_level

\* the host's handling of a record of severity SC_FATAL it was given: the
\* process ends, no thread runs any more
SinkTerminates(th) ==
    /\ th \in live
    /\ stmt[th].stage = "destroyed"
    /\ \E k \in 1 .. Len(delivered[th]) :
           delivered[th][k].severity = "SC_FATAL"
    /\ live' = {}
    /\ UNCHANGED <<regVars, stmt, delivered, nonLog>>

(***************************************************************************)
(* stream_redirection.  report.h declares the class, derived from          *)
(* std::stringbuf, with the members os, level and old_buf{nullptr} and the *)
(* overridden xsputn and sync; the bodies follow the design document.      *)
(***************************************************************************)
Bufs == {"buf0", "buf1"}
Redirector == "stream_redirection"
FLUSH == "<flush>"
RedirLevels == {WARNING, INFO}
\* what a writer gives the captured stream in one call
RedirChunks == {<<"a">>, <<"b", NL>>, <<"a", NL, "b", NL>>, <<NL>>}

\* the record of one line
LineRecord(level, line) ==
    [level |-> level, msg_type |-> "SystemC", msg |-> line]

\* a buffer forwarding what one write ending in a newline completes as one
\* record
SplitLines_wholeWrite(cur, out, s) ==
    IF s # <<>> /\ s[Len(s)] = NL
    THEN [pending |-> <<>>,
          out |-> Append(out, cur \o SubSeq(s, 1, Len(s) - 1))]
    ELSE [pending |-> cur \o s, out |-> out]

RECURSIVE SplitLines(_, _, _)
\* the characters s arriving after the buffered cur: every newline ends a
\* line, which is forwarded without it
SplitLines(cur, out, s) ==
    IF s = <<>> THEN [pending |-> cur, out |-> out]
    ELSE IF Head(s) = NL
         THEN SplitLines(<<>>, Append(out, cur), Tail(s))
         ELSE SplitLines(Append(cur, Head(s)), out, Tail(s))

\* the lines sync() forwards: the buffered content, if there is any
SyncLines(cur) == IF cur = <<>> THEN <<>> ELSE <<cur>>

\* a reset() that restores whenever it is called
ResetRestores_always == TRUE

\* whether reset() has a buffer to give back
ResetRestores == rstage = "active"

\* stream_redirection(os, level): captures the buffer of os, installs itself
Start(level) ==
    /\ rstage = "none"
    /\ rstage' = "active"
    /\ rlevel' = level
    /\ old_buf' = rdbuf
    /\ orig' = rdbuf
    /\ rdbuf' = Redirector
    /\ foreign' = FALSE
    /\ UNCHANGED <<pending, rsink, nops, nreset, wlog, nrestore, rpath,
                   nonRed>>

\* os << chunk: xsputn when the session's buffer is installed, else the
\* write goes to the installed buffer and is not seen
StreamWrite(chunk) ==
    /\ nops < MaxStreamOps
    /\ nops' = nops + 1
    /\ IF rdbuf = Redirector
       THEN LET r == SplitLines(pending, <<>>, chunk)
            IN  /\ pending' = r.pending
                /\ rsink' = rsink \o
                      [i \in 1 .. Len(r.out) |-> LineRecord(rlevel, r.out[i])]
                /\ wlog' = wlog \o chunk
       ELSE UNCHANGED <<pending, rsink, wlog>>
    /\ UNCHANGED <<rstage, rdbuf, old_buf, rlevel, nreset, orig, foreign,
                   nrestore, rpath, nonRed>>

\* the character the writer thread th writes, by which its text is told
\* from the other's
WriterChar(th) == IF th = "t1" THEN "a" ELSE "b"

\* what writer th gives the stream in one call: a piece of a line, and a
\* piece that ends the line
WriterChunks(th) == {<<WriterChar(th)>>, <<WriterChar(th), NL>>}

RECURSIVE Merges(_, _)
\* the interleavings of the characters of a and b
Merges(a, b) ==
    IF a = <<>> THEN {b}
    ELSE IF b = <<>> THEN {a}
    ELSE {<<Head(a)>> \o m : m \in Merges(Tail(a), b)} \cup
         {<<Head(b)>> \o m : m \in Merges(a, Tail(b))}

\* what the buffer may receive of two xsputn calls that overlap in time:
\* the class holds no lock and std::stringbuf has none, so the calls race;
\* the characters of both in some interleaving, or those of one call only
RaceOutcomes(a, b) == Merges(a, b) \cup {a, b}

\* os << c1 on one thread overlapping os << c2 on another
StreamWriteRacing(c1, c2) ==
    /\ nops + 2 <= MaxStreamOps
    /\ nops' = nops + 2
    /\ IF rdbuf = Redirector
       THEN \E m \in RaceOutcomes(c1, c2) :
              LET r == SplitLines(pending, <<>>, m)
              IN  /\ pending' = r.pending
                  /\ rsink' = rsink \o
                        [i \in 1 .. Len(r.out) |->
                            LineRecord(rlevel, r.out[i])]
                  /\ wlog' = wlog \o m
       ELSE UNCHANGED <<pending, rsink, wlog>>
    /\ UNCHANGED <<rstage, rdbuf, old_buf, rlevel, nreset, orig, foreign,
                   nrestore, rpath, nonRed>>

\* os.flush(): sync() when the session's buffer is installed
StreamFlush ==
    /\ nops < MaxStreamOps
    /\ nops' = nops + 1
    /\ IF rdbuf = Redirector
       THEN /\ rsink' = rsink \o
                  [i \in 1 .. Len(SyncLines(pending)) |->
                      LineRecord(rlevel, SyncLines(pending)[i])]
            /\ pending' = <<>>
            /\ wlog' = Append(wlog, FLUSH)
       ELSE UNCHANGED <<pending, rsink, wlog>>
    /\ UNCHANGED <<rstage, rdbuf, old_buf, rlevel, nreset, orig, foreign,
                   nrestore, rpath, nonRed>>

\* what reset() and the destructor do to end the session: forward what is
\* buffered, give the stream its buffer back
Release ==
    /\ rsink' = rsink \o
          [i \in 1 .. Len(SyncLines(pending)) |->
              LineRecord(rlevel, SyncLines(pending)[i])]
    /\ pending' = <<>>
    /\ wlog' = Append(wlog, FLUSH)
    /\ rdbuf' = old_buf
    /\ old_buf' = nullptr
    /\ foreign' = FALSE
    /\ nrestore' = nrestore + 1

\* reset(): ends the session, a no-op when it has ended
Reset ==
    /\ rstage \in {"active", "reset"}
    /\ nreset < MaxResets
    /\ nreset' = nreset + 1
    /\ IF ResetRestores
       THEN /\ Release
            /\ rstage' = "reset"
       ELSE UNCHANGED <<rstage, rdbuf, old_buf, pending, rsink, wlog,
                        foreign, nrestore>>
    /\ UNCHANGED <<rlevel, nops, orig, rpath, nonRed>>

\* a destructor that leaves the stream as it is
Destroy_redirection_noRestore(path) ==
    /\ rstage \in {"active", "reset"}
    /\ rstage' = "destroyed"
    /\ rpath' = path
    /\ UNCHANGED <<rdbuf, old_buf, pending, rsink, wlog, foreign, nrestore,
                   rlevel, nops, nreset, orig, nonRed>>

\* ~stream_redirection(), the owning scope being left on the given path:
\* reset() if it was not called
Destroy_redirection(path) ==
    /\ rstage \in {"active", "reset"}
    /\ rstage' = "destroyed"
    /\ rpath' = path
    /\ IF rstage = "active"
       THEN Release
       ELSE UNCHANGED <<rdbuf, old_buf, pending, rsink, wlog, foreign,
                        nrestore>>
    /\ UNCHANGED <<rlevel, nops, nreset, orig, nonRed>>

\* someone else calls os.rdbuf(b)
ForeignSetBuf(b) ==
    /\ rstage # "none"
    /\ ~foreign
    /\ rdbuf # b
    /\ rdbuf' = b
    /\ foreign' = TRUE
    /\ UNCHANGED <<rstage, old_buf, rlevel, pending, rsink, nops, nreset,
                   wlog, orig, nrestore, rpath, nonRed>>

(***************************************************************************)
(* The stream operators of enum class log.                                 *)
(***************************************************************************)
IsSpace(c) == c \in {SP, NL}

RECURSIVE SkipWs(_)
SkipWs(s) == IF s # <<>> /\ IsSpace(Head(s)) THEN SkipWs(Tail(s)) ELSE s

RECURSIVE TakeToken(_)
TakeToken(s) ==
    IF s = <<>> \/ IsSpace(Head(s)) THEN <<>>
    ELSE <<Head(s)>> \o TakeToken(Tail(s))

\* is >> buf for a std::string buf: skips white space, reads up to the next
\* white space; eofbit when the end was reached, failbit when nothing was read
ExtractString(s, eof, fail) ==
    IF eof \/ fail
    THEN [buf |-> <<>>, rest |-> s, eof |-> eof, fail |-> TRUE]
    ELSE LET r == SkipWs(s)
             t == TakeToken(r)
             rest == SubSeq(r, Len(t) + 1, Len(r))
         IN  [buf |-> t, rest |-> rest, eof |-> rest = <<>>,
              fail |-> t = <<>>]

\* a loop that stops one short, i < TRACEALL
MatchIndices_stopsShort == 0 .. TRACEALL - 1

\* the values of i in for(i = 0U; i <= TRACEALL; ++i)
MatchIndices == 0 .. TRACEALL

\* the first i with strcmp(buf.c_str(), buffer[i]) == 0, -1 if there is none
MatchIndex(buf) ==
    LET hits == {i \in MatchIndices : StrcmpEq(buf, buffer[i + 1])}
    IN  IF hits = {} THEN -1
        ELSE CHOOSE i \in hits : \A j \in hits : i <= j

\* what operator<< writes for val
FormatLog(v) == buffer[v + 1]

\* whether operator>> sets failbit itself when no name matches
SetsFailOnMismatch == FALSE

\* operator<<(std::ostream&, log const&)
Format(v) ==
    /\ pstage = "start"
    /\ pstage' = "formatted"
    /\ ss' = ss \o FormatLog(v)
    /\ fmt' = v
    /\ fresh' = (ss = <<>>)
    /\ UNCHANGED <<eofbit, failbit, val, nparse, tok, val0, nonPar>>

\* operator>>(std::istream&, log&)
Parse ==
    /\ nparse < MaxParses
    /\ nparse' = nparse + 1
    /\ pstage' = "parsed"
    /\ LET x == ExtractString(ss, eofbit, failbit)
           i == MatchIndex(x.buf)
       IN  /\ ss' = x.rest
           /\ eofbit' = x.eof
           /\ failbit' = (x.fail \/ (i = -1 /\ SetsFailOnMismatch))
           /\ val' = IF i # -1 THEN as_log(i) ELSE val
           /\ tok' = x.buf
    /\ val0' = val
    /\ UNCHANGED <<fmt, fresh, nonPar>>

\* what a caller has in the stream before it reads a level
Inputs ==
    {<<>>, <<SP>>, <<"F", "O", "O">>, <<"i", "n", "f", "o">>,
     <<"I", "N", "F">>, <<"I", "N", "F", "O", "S">>,
     <<"I", "N", "F", "O", NUL, "x">>, <<NUL, "I", "N", "F", "O">>,
     <<SP, "I", "N", "F", "O">>,
     <<"T", "R", "A", "C", "E", SP, "D", "E", "B", "U", "G">>,
     <<"F", "O", "O", SP, "N", "O", "N", "E", NL>>}
        \cup {buffer[i] : i \in 1 .. 8}

(***************************************************************************)
(* Specifications.                                                         *)
(***************************************************************************)
\* no redirection session
RedIdle ==
    /\ rstage = "none"
    /\ rdbuf = "buf0"
    /\ old_buf = nullptr
    /\ rlevel = NONE
    /\ pending = <<>>
    /\ rsink = <<>>
    /\ nops = 0
    /\ nreset = 0
    /\ wlog = <<>>
    /\ orig = nullptr
    /\ foreign = FALSE
    /\ nrestore = 0
    /\ rpath = ""

\* no stream being read
ParIdle ==
    /\ ss = <<>>
    /\ eofbit = FALSE
    /\ failbit = FALSE
    /\ val = NONE
    /\ pstage = "start"
    /\ nparse = 0
    /\ fmt = -1
    /\ fresh = FALSE
    /\ tok = <<>>
    /\ val0 = NONE

\* after init_logging(level), one thread logging
LogInit ==
    /\ inited = TRUE
    /\ log_cfg_level \in Levels
    /\ verbosity_level = verbosity[log_cfg_level + 1]
    /\ lut = [c \in Categories |-> NoOverride]
    /\ live = {"t1"}
    /\ stmt = [th \in Threads |-> Idle]
    /\ delivered = [th \in Threads |-> <<>>]

Init == LogInit /\ RedIdle /\ ParIdle

Next ==
    \/ \E level \in Levels : set_logging_level(level)
    \/ \E c \in Categories, level \in OverrideLevels :
          set_category_override(c, level)
    \/ \E c \in Categories : clear_category_override(c)
    \/ \E th \in Threads, m \in Macros, arg \in Args : Begin(th, m, arg)
    \/ \E th \in Threads, chunk \in Chunks : Write(th, chunk)
    \/ \E th \in Threads, path \in ExitPaths : Destroy(th, path)

\* the registry and the log statements
Spec == Init /\ [][Next]_vars

\* before init_logging: the registry holds the default of LogConfig, the
\* host's verbosity is the one sc_report_handler starts with, SC_MEDIUM
LogPreInit ==
    /\ inited = FALSE
    /\ log_cfg_level = WARNING
    /\ verbosity_level = SC_MEDIUM
    /\ lut = [c \in Categories |-> NoOverride]
    /\ live = {"t1"}
    /\ stmt = [th \in Threads |-> Idle]
    /\ delivered = [th \in Threads |-> <<>>]

InitPre == LogPreInit /\ RedIdle /\ ParIdle

NextPre ==
    \/ \E level \in Levels : init_logging(level)
    \/ \E th \in Threads, m \in Macros, arg \in Args : Begin(th, m, arg)
    \/ \E th \in Threads, chunk \in Chunks : Write(th, chunk)
    \/ \E th \in Threads, path \in ExitPaths : Destroy(th, path)

\* log statements before and after the call of init_logging
SpecPre == InitPre /\ [][NextPre]_vars

\* after init_logging(log::INFO), two threads logging
InitMT ==
    /\ inited = TRUE
    /\ log_cfg_level = INFO
    /\ verbosity_level = verbosity[log_cfg_level + 1]
    /\ lut = [c \in Categories |-> NoOverride]
    /\ live = Threads
    /\ stmt = [th \in Threads |-> Idle]
    /\ delivered = [th \in Threads |-> <<>>]
    /\ RedIdle
    /\ ParIdle

NextMT ==
    \/ \E th \in Threads, m \in {"SCCINFO", "SCCERR"}, arg \in Args :
          Begin(th, m, arg)
    \/ \E th \in Threads, chunk \in Chunks : Write(th, chunk)
    \/ \E th \in Threads, path \in ExitPaths : Destroy(th, path)

\* the log statements of two threads, interleaved
SpecMT == InitMT /\ [][NextMT]_vars

NextTier ==
    \/ \E level \in Levels : set_logging_level(level)
    \/ \E v \in HostValues : set_verbosity_level(v)
    \/ \E c \in Categories, level \in OverrideLevels :
          set_category_override(c, level)
    \/ \E c \in Categories : clear_category_override(c)
    \/ \E th \in Threads, m \in Macros, arg \in Args : Begin(th, m, arg)
    \/ \E th \in Threads : Write(th, <<"a">>)
    \/ \E th \in Threads : Destroy(th, "scope_end")

\* the statements of every tier under every configuration of the thresholds
SpecTier == Init /\ [][NextTier]_vars

NextType ==
    \/ \E th \in Threads, m \in Macros, arg \in Args : Begin(th, m, arg)
    \/ \E th \in Threads, arg \in Args : Type(th, arg)
    \/ \E th \in Threads, s \in Categories : TypeString(th, s)
    \/ \E th \in Threads, now \in Categories \cup {Garbage} :
          CallerStringEnds(th, now)
    \/ \E th \in Threads, chunk \in Chunks : Write(th, chunk)
    \/ \E th \in Threads, path \in ExitPaths : Destroy(th, path)

\* log statements whose category is set again after the call site
SpecType == Init /\ [][NextType]_vars

NextFatal ==
    \/ \E th \in Threads, m \in Macros, arg \in Args : Begin(th, m, arg)
    \/ \E th \in Threads, chunk \in Chunks : Write(th, chunk)
    \/ \E th \in Threads, path \in ExitPaths : Destroy(th, path)
    \/ \E th \in Threads : SinkTerminates(th)

\* log statements given to a sink that ends the process on a FATAL record
SpecFatal == Init /\ [][NextFatal]_vars

\* the values the host's verbosity is set to directly
HostVerbosities == HostValues \cup {verbosity[l + 1] : l \in Levels}

NextHost ==
    \/ \E level \in Levels : set_logging_level(level)
    \/ \E v \in HostVerbosities : set_verbosity_level(v)
    \/ \E th \in Threads, m \in Macros : Begin(th, m, NoArg)
    \/ \E th \in Threads : Write(th, <<"a">>)
    \/ \E th \in Threads : Destroy(th, "scope_end")

\* untagged log statements, the global level being set through the registry
\* and on the host directly
SpecHost == Init /\ [][NextHost]_vars

\* a stream with one of two buffers, no session yet
RedInit ==
    /\ rstage = "none"
    /\ rdbuf \in Bufs
    /\ old_buf = nullptr
    /\ rlevel = NONE
    /\ pending = <<>>
    /\ rsink = <<>>
    /\ nops = 0
    /\ nreset = 0
    /\ wlog = <<>>
    /\ orig = nullptr
    /\ foreign = FALSE
    /\ nrestore = 0
    /\ rpath = ""

NextRedir ==
    \/ \E level \in RedirLevels : Start(level)
    \/ \E chunk \in RedirChunks : StreamWrite(chunk)
    \/ StreamFlush
    \/ Reset
    \/ \E path \in ExitPaths : Destroy_redirection(path)
    \/ \E b \in Bufs : ForeignSetBuf(b)

\* one redirection session on one stream
InitRedir == LogInit /\ log_cfg_level = INFO /\ RedInit /\ ParIdle

SpecRedir == InitRedir /\ [][NextRedir]_vars

NextRedirMT ==
    \/ \E level \in RedirLevels : Start(level)
    \/ \E th \in Threads : \E chunk \in WriterChunks(th) : StreamWrite(chunk)
    \/ \E c1 \in WriterChunks("t1"), c2 \in WriterChunks("t2") :
          StreamWriteRacing(c1, c2)
    \/ \E path \in ExitPaths : Destroy_redirection(path)

\* two threads writing to one redirected stream
SpecRedirMT == InitRedir /\ [][NextRedirMT]_vars

\* a stream holding some input, a value of any level
ParInit ==
    /\ ss \in Inputs
    /\ val \in Levels
    /\ eofbit = FALSE
    /\ failbit = FALSE
    /\ pstage = "start"
    /\ nparse = 0
    /\ fmt = -1
    /\ fresh = FALSE
    /\ tok = <<>>
    /\ val0 = val

NextParse ==
    \/ \E v \in Levels : Format(v)
    \/ Parse

\* the stream operators of the level enumeration
InitParse == LogInit /\ log_cfg_level = INFO /\ RedIdle /\ ParInit

SpecParse == InitParse /\ [][NextParse]_vars

(***************************************************************************)
(* Properties of the gate and of the log statement builder.                *)
(***************************************************************************)
\* the level a tiered statement requests
TierLevel(m) ==
    CASE m = "SCCINFO"     -> INFO
      [] m = "SCCDEBUG"    -> DEBUG
      [] m = "SCCTRACE"    -> TRACE
      [] m = "SCCTRACEALL" -> TRACEALL

\* the effective threshold of a statement: the override registered for its
\* category, else the global threshold
EffectiveLevel(arg) ==
    IF arg # NoArg /\ lut[arg] # NoOverride THEN lut[arg]
    ELSE verbosity_level

\* thread th executes a macro call site in this step
BeginStep(th) ==
    /\ stmt[th].stage # "accumulating"
    /\ stmt'[th] # stmt[th]

\* C1, the decision at the call site: a tiered statement constructs its
\* logger iff the verbosity of its level is at most the effective threshold,
\* which for a threshold that is the verbosity of a level T means that its
\* level is at most T; a WARNING, ERROR or FATAL statement always does
C1_GateDecision ==
    \A th \in Threads :
        BeginStep(th) =>
            LET m == stmt'[th].macro
                eff == EffectiveLevel(stmt'[th].arg)
                built == stmt'[th].stage = "accumulating"
            IN  /\ m \in Untiered => built
                /\ m \in Tiered =>
                     /\ built <=> verbosity[TierLevel(m) + 1] <= eff
                     /\ \A T \in Levels :
                            verbosity[T + 1] = eff =>
                                (built <=> TierLevel(m) <= T)

\* C1, the delivery: a finished statement has delivered a record iff it
\* passed the gate, and an unfinished one has delivered none
C1_Delivery ==
    \A th \in Threads :
        /\ stmt[th].stage = "destroyed" => Len(delivered[th]) = 1
        /\ stmt[th].stage # "destroyed" => delivered[th] = <<>>

\* C1: a tiered statement with requested level V delivers a record to the
\* sink iff V <= effective_level(category); a WARNING, ERROR or FATAL
\* statement delivers its record whatever the threshold is.
C1_EmittedIffWithinThreshold ==
    [][C1_GateDecision]_vars /\ []C1_Delivery

\* C1 witness: the threshold is that of INFO and a DEBUG statement was
\* suppressed without a record
C1_Witness ==
    /\ verbosity_level = verbosity[INFO + 1]
    /\ stmt["t1"].stage = "suppressed"
    /\ stmt["t1"].macro = "SCCDEBUG"
    /\ stmt["t1"].arg = NoArg
    /\ delivered["t1"] = <<>>

\* C2, the decision: an untagged statement, and one tagged with a category
\* without override, is decided against the global threshold; one tagged
\* with a category that has an override is decided against the override
C2_GateUsesOwnThreshold ==
    \A th \in Threads :
        (BeginStep(th) /\ stmt'[th].macro \in Tiered) =>
            LET m == stmt'[th].macro
                arg == stmt'[th].arg
                built == stmt'[th].stage = "accumulating"
            IN  IF arg = NoArg \/ lut[arg] = NoOverride
                THEN built <=> verbosity_level >= MacroGate(m)
                ELSE built <=> lut[arg] >= MacroGate(m)

\* C2, the frame: a step that changes the overrides leaves the global
\* threshold as it is, and the decision of every statement that is untagged
\* or tagged with a category whose override did not change
C2_OverrideFrame ==
    lut' # lut =>
        /\ verbosity_level' = verbosity_level
        /\ \A arg \in Args :
               (arg = NoArg \/ lut'[arg] = lut[arg]) =>
                   \A m \in Macros :
                       MacroPasses(m, arg)' = MacroPasses(m, arg)

\* C2, the look-up: the effective level of a category with an override is
\* the override
C2_Lookup ==
    \A c \in Categories :
        lut[c] # NoOverride => get_log_verbosity_t(c) = lut[c]

\* C2: an override registered for category C changes the emission decision
\* only of statements tagged C; untagged statements and statements tagged
\* with a category without override are decided against the global
\* threshold, which the override leaves unchanged.
C2_OverrideOnlyForItsCategory ==
    [][C2_GateUsesOwnThreshold /\ C2_OverrideFrame]_vars /\ []C2_Lookup

\* C2 witness: BUS is overridden to the verbosity of TRACE, the global
\* threshold is that of WARNING, and a TRACE statement tagged BUS was
\* emitted
C2_Witness ==
    /\ lut["BUS"] = verbosity[TRACE + 1]
    /\ lut["CPU"] = NoOverride
    /\ verbosity_level = verbosity[WARNING + 1]
    /\ stmt["t1"].stage = "destroyed"
    /\ stmt["t1"].macro = "SCCTRACE"
    /\ stmt["t1"].arg = "BUS"
    /\ Len(delivered["t1"]) = 1
    /\ delivered["t1"][1].msg_type = "BUS"

\* the characters of s before the first NUL, stated on positions
IsCutAtNul(msg, s) ==
    \E k \in 0 .. Len(s) :
        /\ msg = SubSeq(s, 1, k)
        /\ \A i \in 1 .. k : s[i] # NUL
        /\ k < Len(s) => s[k + 1] = NUL

\* C3 as stated: one record, none before destruction, and its text is the
\* concatenation of the writes
C3_TextIsConcatenation ==
    \A th \in Threads :
        /\ stmt[th].stage = "accumulating" => delivered[th] = <<>>
        /\ stmt[th].stage = "destroyed" =>
             /\ Len(delivered[th]) = 1
             /\ delivered[th][1].msg = stmt[th].written

\* C3 (amended): a logger that was constructed, written to N >= 0 times and
\* destroyed has delivered exactly one record, none before its destruction,
\* and the record's text is the concatenation of the writes in their order
\* up to the first NUL character written, the whole concatenation if none
\* was.
C3_SingleFlush ==
    \A th \in Threads :
        /\ stmt[th].stage = "accumulating" => delivered[th] = <<>>
        /\ stmt[th].stage = "destroyed" =>
             /\ Len(delivered[th]) = 1
             /\ IsCutAtNul(delivered[th][1].msg, stmt[th].written)
             /\ (\A i \in 1 .. Len(stmt[th].written) :
                     stmt[th].written[i] # NUL) =>
                   delivered[th][1].msg = stmt[th].written

\* C3 witness: two writes, "a" then "b" and a NUL, delivered as "ab"
C3_Witness ==
    /\ stmt["t1"].stage = "destroyed"
    /\ stmt["t1"].nw = 2
    /\ stmt["t1"].written = <<"a", "b", NUL>>
    /\ Len(delivered["t1"]) = 1
    /\ delivered["t1"][1].msg = <<"a", "b">>

\* C4: a logger that was constructed delivers exactly one record on every
\* exit path of its scope: also when the scope is left by an exception or by
\* a return after text was written, the record, with the logger's own
\* severity, verbosity and origin, is delivered once and not dropped.
C4_DeliveredOnEveryExitPath ==
    \A th \in Threads :
        (stmt[th].stage = "destroyed" /\ stmt[th].path \in ExitPaths) =>
            /\ Len(delivered[th]) = 1
            /\ delivered[th][1].severity = MacroSeverity(stmt[th].macro)
            /\ delivered[th][1].verbosity = stmt[th].level
            /\ delivered[th][1].file = stmt[th].file
            /\ delivered[th][1].line = stmt[th].line

\* C4 witness: text was written and the scope was left by an exception
C4_Witness ==
    /\ stmt["t1"].stage = "destroyed"
    /\ stmt["t1"].path = "unwind"
    /\ stmt["t1"].written # <<>>
    /\ Len(delivered["t1"]) = 1

(***************************************************************************)
(* Properties of the stream redirection.                                   *)
(***************************************************************************)
\* the positions of w that end a record: a newline, a flush request
Breaks(w) == {i \in 1 .. Len(w) : w[i] \in {NL, FLUSH}}

\* the last break before position i, 0 if there is none
PrevBreak(w, i) ==
    LET before == {j \in Breaks(w) : j < i}
    IN  IF before = {} THEN 0
        ELSE CHOOSE j \in before : \A k \in before : k <= j

\* the text between the break before position i and position i
Segment(w, i) == SubSeq(w, PrevBreak(w, i) + 1, i - 1)

\* the breaks that complete a record: every newline, and a flush request
\* with text in front of it
Completions(w) ==
    {i \in Breaks(w) : w[i] = NL \/ Segment(w, i) # <<>>}

\* the texts of the records w must have produced, in write order
ExpectedLines(w) ==
    [k \in 1 .. Cardinality(Completions(w)) |->
        Segment(w, CHOOSE i \in Completions(w) :
                       Cardinality({j \in Completions(w) : j < i}) = k - 1)]

\* the text w leaves buffered
ExpectedPending(w) == SubSeq(w, PrevBreak(w, Len(w) + 1) + 1, Len(w))

Msgs(records) == [i \in 1 .. Len(records) |-> records[i].msg]

\* C5: what was written to the captured stream is forwarded as one record
\* per completed line, without the newline, in write order ("a\nb\n" gives
\* the two records "a" and "b"); text without a newline after it gives no
\* record and stays buffered until a newline, a flush or reset(), which
\* delivers it as one record.
C5_LineSplitting ==
    /\ Msgs(rsink) = ExpectedLines(wlog)
    /\ pending = ExpectedPending(wlog)
    /\ \A i \in 1 .. Len(rsink) :
          /\ \A k \in 1 .. Len(rsink[i].msg) : rsink[i].msg[k] # NL
          /\ rsink[i].level = rlevel
    /\ wlog = <<"a", NL, "b", NL>> => Msgs(rsink) = << <<"a">>, <<"b">> >>
    /\ wlog = <<"a">> => (rsink = <<>> /\ pending = <<"a">>)
    /\ wlog = <<"a", FLUSH>> => (Msgs(rsink) = << <<"a">> >> /\ pending = <<>>)

\* C5 witness: "a\nb\n" was written in one call and gave two records
C5_Witness ==
    /\ rstage = "active"
    /\ nops = 1
    /\ wlog = <<"a", NL, "b", NL>>
    /\ Len(rsink) = 2

\* C6, the later calls: a reset() on a session that has ended changes
\* nothing, whatever buffer the stream has by then
C6_LaterResetIsNoOp ==
    (nreset' = nreset + 1 /\ rstage # "active") =>
        /\ rdbuf' = rdbuf
        /\ old_buf' = old_buf
        /\ rstage' = rstage
        /\ rsink' = rsink
        /\ nrestore' = nrestore

\* C6: reset() called twice or more on one session restores the stream's
\* buffer once; the later calls are no-ops and do not restore again, also
\* when someone else changed the stream's buffer in between.
C6_IdempotentReset ==
    /\ [][C6_LaterResetIsNoOp]_vars
    /\ [](nrestore <= 1)
    /\ [](nreset >= 1 => nrestore = 1)

\* C6 witness: two calls, the buffer set by someone else between them and
\* left as set
C6_Witness ==
    /\ rstage = "reset"
    /\ nreset = 2
    /\ nrestore = 1
    /\ foreign
    /\ rdbuf # orig

\* the session has ended, by reset() or by destruction
Ended == rstage \in {"reset", "destroyed"}

\* C7: after reset(), or after destruction without reset(), on every exit
\* path of the owning scope, the stream has the buffer it had when the
\* session began (until someone else sets another one), and no later write
\* to the stream produces a record.
C7_RestoredAfterEnd ==
    /\ []((Ended /\ ~foreign) => rdbuf = orig)
    /\ [](Ended => rdbuf # Redirector)
    /\ [][Ended => rsink' = rsink]_vars

\* C7 witness: the session was destroyed by an exception leaving the scope,
\* reset() never called, the stream has its buffer back and a write made
\* after that left no record
C7_Witness ==
    /\ rstage = "destroyed"
    /\ rpath = "unwind"
    /\ nreset = 0
    /\ orig = "buf1"
    /\ rdbuf = "buf1"
    /\ wlog = <<FLUSH>>
    /\ nops = 1
    /\ rsink = <<>>

(***************************************************************************)
(* Properties of the stream operators.                                     *)
(***************************************************************************)
UpperCase ==
    {"A", "B", "C", "D", "E", "F", "G", "H", "I", "J", "K", "L", "M", "N",
     "O", "P", "Q", "R", "S", "T", "U", "V", "W", "X", "Y", "Z"}

\* the eight canonical names
CanonicalNames == {buffer[i] : i \in 1 .. 8}

\* C8: for every value of the enumeration, operator<< writes its canonical
\* all-caps name, and operator>> reading that name back yields the value.
C8_RoundTrip ==
    (fmt # -1 /\ fresh /\ nparse = 1) =>
        /\ tok \in CanonicalNames
        /\ \A k \in 1 .. Len(tok) : tok[k] \in UpperCase
        /\ \A v \in Levels : (v # fmt) => buffer[v + 1] # tok
        /\ val = fmt
        /\ ~failbit

\* C8 witness: TRACEALL was written and read back into a value that held
\* another level
C8_Witness ==
    /\ fmt = TRACEALL
    /\ fresh
    /\ nparse = 1
    /\ val0 # TRACEALL
    /\ val = TRACEALL

\* C9: reading a token that is not exactly one of the eight canonical names
\* leaves the value as it was.
C9_NoMatchLeavesValue ==
    (nparse >= 1 /\ tok \notin CanonicalNames) => val = val0

\* C10: after reading a token that is no canonical name the stream's fail
\* state is set, and after reading a canonical name it is not.
C10_FailStateTellsMismatch ==
    nparse >= 1 =>
        /\ tok \notin CanonicalNames => failbit
        /\ tok \in CanonicalNames => ~failbit

(***************************************************************************)
(* Properties of the registry's global level.                              *)
(***************************************************************************)
\* C11: before init_logging has been called the global threshold is
\* WARNING: a statement of the tiers INFO, DEBUG, TRACE and TRACEALL is
\* suppressed, a WARNING, ERROR or FATAL statement is emitted.
C11_PreInitThresholdIsWarning ==
    \A th \in Threads :
        (~inited /\ stmt[th].stage # "idle") =>
            /\ stmt[th].macro \in Tiered => stmt[th].stage = "suppressed"
            /\ stmt[th].macro \in Untiered => stmt[th].stage # "suppressed"

\* a log call: a step of a statement, from its call site to its delivery
LogStep == bldVars' # bldVars

\* a call that configures the registry
Reconfiguration ==
    \/ \E level \in Levels : set_logging_level(level)
    \/ \E c \in Categories, level \in OverrideLevels :
          set_category_override(c, level)
    \/ \E c \in Categories : clear_category_override(c)

\* C12, one step: set_logging_level(l) makes get_logging_level() return l,
\* no other step changes what it returns, a step of a log statement leaves
\* the registry as it is, and the registry changes in configuring calls only
C12_Step ==
    /\ \A l \in Levels : set_logging_level(l) => get_logging_level' = l
    /\ (~ \E l \in Levels : set_logging_level(l)) =>
           get_logging_level' = get_logging_level
    /\ LogStep => regVars' = regVars
    /\ regVars' # regVars => Reconfiguration

\* C12: get_logging_level() returns the level given to the most recent
\* set_logging_level, or the level of the initialization when there was
\* none; the global threshold and the overrides change in configuring calls
\* only, and not in the call site, the writes or the destruction of a log
\* statement, emitted or suppressed.
C12_RegistryChangedByConfigurationOnly == [][C12_Step]_vars

\* C12 witness: the level was set to DEBUG and BUS overridden, and a
\* statement was emitted and another suppressed since
C12_Witness ==
    /\ get_logging_level = DEBUG
    /\ verbosity_level = SC_HIGH
    /\ lut["BUS"] = verbosity[TRACE + 1]
    /\ lut["CPU"] = NoOverride
    /\ stmt["t1"].stage = "suppressed"
    /\ stmt["t1"].macro = "SCCTRACE"
    /\ stmt["t1"].arg = "CPU"

Terminated == live = {}

\* the record of the FATAL statement of thread th whose text is msg
FatalRecord(th, msg) ==
    [severity |-> "SC_FATAL",
     msg_type |-> IF stmt[th].arg = NoArg THEN "SystemC" ELSE stmt[th].arg,
     msg |-> msg,
     verbosity |-> SC_MEDIUM,
     file |-> stmt[th].file,
     line |-> stmt[th].line]

\* C14 as stated: when the sink ends the process, the FATAL statement it
\* acts on has delivered its record with all the text written to it, with
\* the severity SC_FATAL.
C14_FullTextBeforeTermination ==
    Terminated =>
        \E th \in Threads :
            /\ stmt[th].macro = "SCCFATAL"
            /\ delivered[th] = <<FatalRecord(th, stmt[th].written)>>

\* C14, the state: a finished FATAL statement has delivered one record, of
\* severity SC_FATAL, with the text written to it up to its first NUL, and
\* the process has ended only if there is such a statement
C14_Delivered ==
    /\ \A th \in Threads :
           (stmt[th].macro = "SCCFATAL" /\ stmt[th].stage = "destroyed") =>
               delivered[th] = <<FatalRecord(th, CStr(stmt[th].written))>>
    /\ Terminated =>
           \E th \in Threads :
               /\ stmt[th].macro = "SCCFATAL"
               /\ stmt[th].stage = "destroyed"

\* C14, the order: the step that ends the process starts in a state in
\* which the record of a FATAL statement is delivered already, and changes
\* no record
C14_Order ==
    (Terminated' /\ ~Terminated) =>
        /\ \E th \in Threads :
               delivered[th] = <<FatalRecord(th, CStr(stmt[th].written))>>
        /\ delivered' = delivered

\* C14: for a FATAL statement the delivery of its record, with the text
\* written to it up to its first NUL and the severity SC_FATAL, precedes
\* the sink's ending of the process, on every path its scope is left on.
C14_RecordBeforeTermination == []C14_Delivered /\ [][C14_Order]_vars

\* C14 witness: the process was ended on a FATAL statement left by an
\* exception, whose text held a NUL
C14_Witness ==
    /\ Terminated
    /\ stmt["t1"].macro = "SCCFATAL"
    /\ stmt["t1"].path = "unwind"
    /\ stmt["t1"].written = <<"b", NUL, "a">>
    /\ delivered["t1"][1].msg = <<"b">>

(***************************************************************************)
(* Properties of concurrent use.                                           *)
(***************************************************************************)
\* the characters of the text are those of one writer
OneWriter(text) ==
    \E th \in Threads : \A k \in 1 .. Len(text) : text[k] = WriterChar(th)

\* C15: when two threads write to the same redirected stream, every record
\* delivered is one whole line of one writer: no record holds characters of
\* two writers.
C15_RecordsOfOneWriter ==
    \A i \in 1 .. Len(rsink) : OneWriter(rsink[i].msg)

\* the record of the statement of thread th, from what th itself did
OwnRecord(th) ==
    [severity |-> MacroSeverity(stmt[th].macro),
     msg_type |-> IF stmt[th].arg = NoArg THEN "SystemC" ELSE stmt[th].arg,
     msg |-> CStr(stmt[th].written),
     verbosity |-> MacroVerbosity(stmt[th].macro),
     file |-> CallFile(th),
     line |-> CallLine(th)]

\* C16, the state: a logger that is destroyed has delivered one record,
\* made of what its own thread gave it; one that is not has delivered none
C16_OwnRecord ==
    \A th \in Threads :
        /\ stmt[th].stage = "destroyed" => delivered[th] = <<OwnRecord(th)>>
        /\ stmt[th].stage # "destroyed" => delivered[th] = <<>>

\* C16, one step: the step of one thread's logger leaves the logger and
\* the record of every other thread as they are
C16_Isolation ==
    \A th \in Threads :
        (stmt'[th] # stmt[th] \/ delivered'[th] # delivered[th]) =>
            \A o \in Threads \ {th} :
                stmt'[o] = stmt[o] /\ delivered'[o] = delivered[o]

\* C16: loggers of different threads that accumulate and flush at the same
\* time each deliver exactly one record, whose text, category, verbosity,
\* file and line are the logger's own, in every interleaving; no logger
\* reads or writes the state of another.
C16_BuildersIndependent == []C16_OwnRecord /\ [][C16_Isolation]_vars

\* C16 witness: thread t2 has delivered its record while the logger of
\* thread t1 is in the middle of its writes, each with its own content
C16_Witness ==
    /\ stmt["t1"].stage = "accumulating"
    /\ stmt["t1"].written = <<"a">>
    /\ stmt["t1"].t = "BUS"
    /\ stmt["t2"].stage = "destroyed"
    /\ delivered["t2"] =
          << [severity |-> "SC_ERROR", msg_type |-> "CPU", msg |-> <<"b">>,
              verbosity |-> SC_MEDIUM, file |-> "other.cpp", line |-> 2] >>

(***************************************************************************)
(* Properties of the tiers.                                                *)
(***************************************************************************)
\* C17, the call site: a tiered statement whose check fails constructs no
\* logger, and the step changes neither the registry nor any other thread's
\* statement nor anything outside the log statements
C17_CallSite ==
    \A th \in Threads :
        (/\ BeginStep(th)
         /\ stmt'[th].macro \in Tiered
         /\ get_log_verbosity_va(stmt'[th].arg) < MacroGate(stmt'[th].macro))
        =>
            /\ stmt'[th] = [Idle EXCEPT !.stage = "suppressed",
                                        !.macro = stmt'[th].macro,
                                        !.arg = stmt'[th].arg]
            /\ delivered'[th] = <<>>
            /\ regVars' = regVars
            /\ nonLog' = nonLog
            /\ live' = live
            /\ \A o \in Threads \ {th} :
                   stmt'[o] = stmt[o] /\ delivered'[o] = delivered[o]

\* C17, afterwards: a suppressed statement has no logger, no write to it
\* was evaluated and no record delivered, until the thread's next call site
C17_Suppressed ==
    \A th \in Threads :
        stmt[th].stage = "suppressed" =>
            /\ stmt[th].macro \in Tiered
            /\ stmt[th].severity = ""
            /\ stmt[th].os = <<>>
            /\ stmt[th].written = <<>>
            /\ stmt[th].nw = 0
            /\ delivered[th] = <<>>

\* C17: a tiered statement whose call-site check fails creates no logger
\* and evaluates none of its stream writes; it changes no state and
\* delivers nothing.
C17_SuppressedDoesNothing == [][C17_CallSite]_vars /\ []C17_Suppressed

\* C17 witness: an INFO statement tagged BUS was suppressed by the override
\* of BUS while the global threshold admits every tier
C17_Witness ==
    /\ verbosity_level = SC_DEBUG
    /\ lut["BUS"] = verbosity[WARNING + 1]
    /\ stmt["t1"].stage = "suppressed"
    /\ stmt["t1"].macro = "SCCINFO"
    /\ stmt["t1"].arg = "BUS"
    /\ delivered["t1"] = <<>>

(***************************************************************************)
(* Properties of the category of a record.                                 *)
(***************************************************************************)
\* C18: whatever type calls were made on a logger between its writes, the
\* category of its record is the name given to the last type call when that
\* call gave one, and "SystemC" when it gave none.
C18_CategoryOfLastTypeCall ==
    \A th \in Threads :
        stmt[th].stage = "destroyed" =>
            /\ Len(delivered[th]) = 1
            /\ delivered[th][1].msg_type =
                  IF stmt[th].tlast \in Categories THEN stmt[th].tlast
                  ELSE "SystemC"

\* the tiers, the most verbose first
TierChain == <<"SCCTRACEALL", "SCCTRACE", "SCCDEBUG", "SCCINFO">>

\* C19, one threshold: for every category, a tier that passes its gate
\* makes every less verbose tier pass its gate
C19_Chain ==
    \A arg \in Args :
        \A i, j \in 1 .. Len(TierChain) :
            (i <= j /\ MacroPasses(TierChain[i], arg)) =>
                MacroPasses(TierChain[j], arg)

\* C19, two thresholds: a step that does not lower the effective threshold
\* of a category leaves every tier that passed its gate passing it
C19_Raise ==
    \A arg \in Args :
        get_log_verbosity_va(arg)' >= get_log_verbosity_va(arg) =>
            \A m \in Tiered : MacroPasses(m, arg) => MacroPasses(m, arg)'

\* C19, the statements: a tiered statement was built iff its gate passed
C19_Decision ==
    \A th \in Threads :
        (BeginStep(th) /\ stmt'[th].macro \in Tiered) =>
            (stmt'[th].stage = "accumulating"
                <=> MacroPasses(stmt'[th].macro, stmt'[th].arg))

\* C19: the gating of the tiers is monotone: for one category and one
\* threshold, TRACEALL emitted implies TRACE emitted implies DEBUG emitted
\* implies INFO emitted, and raising the effective threshold never
\* suppresses a statement that the lower threshold emits.
C19_TierGatingMonotone ==
    []C19_Chain /\ [][C19_Raise /\ C19_Decision]_vars

\* C19 witness: a TRACE statement tagged BUS was emitted under the override
\* of BUS, the global threshold admitting INFO only
C19_Witness ==
    /\ verbosity_level = verbosity[INFO + 1]
    /\ lut["BUS"] = verbosity[TRACE + 1]
    /\ stmt["t1"].stage = "destroyed"
    /\ stmt["t1"].macro = "SCCTRACE"
    /\ stmt["t1"].arg = "BUS"
    /\ Len(delivered["t1"]) = 1

(***************************************************************************)
(* Properties of the verbosity of a record.                                *)
(***************************************************************************)
\* the lowest verbosity other than zero that a level sets on the host
LowestHostVerbosity ==
    CHOOSE v \in {verbosity[l + 1] : l \in Levels} \ {0} :
        \A w \in {verbosity[l + 1] : l \in Levels} \ {0} : v <= w

\* C20, the record: the verbosity of the record of a tiered statement is a
\* tenth of its gate's threshold, below that threshold and below the lowest
\* non-zero verbosity of the host; that of the record of a WARNING, ERROR
\* or FATAL statement is SC_MEDIUM
C20_Record ==
    \A th \in Threads :
        stmt[th].stage = "destroyed" =>
            LET rec == delivered[th][1]
                m == stmt[th].macro
            IN  /\ m \in Tiered =>
                     /\ rec.verbosity * 10 = MacroGate(m)
                     /\ rec.verbosity < MacroGate(m)
                     /\ rec.verbosity < LowestHostVerbosity
                /\ m \in Untiered => rec.verbosity = SC_MEDIUM

\* C20, the sink: the record a statement delivers while the host's
\* verbosity is not zero passes the host's filter, also when it was a
\* category override that admitted the statement
C20_Delivery ==
    \A th \in Threads :
        (stmt[th].stage = "accumulating" /\ stmt'[th].stage = "destroyed"
         /\ verbosity_level # 0) =>
            SinkAdmits(delivered'[th][1])

\* C20: every tiered statement that passes its gate delivers a record whose
\* verbosity is one tenth of the gate's threshold, hence below that
\* threshold and below the lowest non-zero verbosity of the host, so that
\* a record admitted by a category override is not dropped by a sink that
\* compares it with a non-zero global verbosity; the records of WARNING,
\* ERROR and FATAL statements carry the medium verbosity.
C20_RecordVerbosity == []C20_Record /\ [][C20_Delivery]_vars

\* C20 witness: the global threshold is that of WARNING, and a TRACE
\* statement tagged CPU, admitted by the override of CPU, delivered its
\* record with a tenth of SC_FULL as verbosity
C20_Witness ==
    /\ verbosity_level = verbosity[WARNING + 1]
    /\ lut["CPU"] = SC_FULL
    /\ stmt["t1"].stage = "destroyed"
    /\ stmt["t1"].macro = "SCCTRACE"
    /\ stmt["t1"].arg = "CPU"
    /\ delivered["t1"][1].verbosity * 10 = SC_FULL
    /\ SinkAdmits(delivered["t1"][1])

=============================================================================
